---------------------------- MODULE Spec2Model ----------------------------
(***************************************************************************)
(* Model of the session and message pipeline of the Telegram AI chatbot:   *)
(* the access gate (checkAccess), the command, menu and message handlers   *)
(* of handler.py, the history trimming of function.py (prune_messages)     *)
(* and the three long-message splitters of handler.py.                     *)
(*                                                                         *)
(* Texts are sequences of characters.  The transport limit (4096) and the  *)
(* per-model context budget (128000) are scaled down to MaxLength and      *)
(* MaxOut so that texts around the limits can be enumerated.               *)
(***************************************************************************)
EXTENDS Integers, Sequences, FiniteSets, TLC

VARIABLES
    ALL_USERS_ACCESS,   \* handler.py:75, the process-wide access flag
    user_data,          \* user id -> the session object of get_or_create_user_data
    fsm_state,          \* user id -> FSM state (ChangeValueState) of that user
    sys_massage,        \* handler.py:800, the module-global holding the last role text
    pending,            \* user id -> the chat exchange awaiting its model call, or NoCall
    last,               \* what the handler of the latest event did (sends, saves, calls)
    nevents,            \* number of events handled so far
    fn,                 \* pure-function specifications: the function applied and its input
    out                 \* pure-function specifications: what the function returned

vars == <<ALL_USERS_ACCESS, user_data, fsm_state, sys_massage, pending, last,
          nevents, fn, out>>

handlerVars == <<ALL_USERS_ACCESS, user_data, fsm_state, sys_massage, pending,
                 last, nevents>>

-----------------------------------------------------------------------------
(* Bounds *)

\* scaled transport limit (4096 in handler.py:566, 1000, 1038)
MaxLength == 6
\* longest response / history text enumerated for the splitters
MaxTextLen == 8
\* scaled context budget (max_out = 128000, handler.py:169)
MaxOut == 3
\* longest history (entries) enumerated for prune_messages
MaxHistory == 3
\* longest content of one history entry enumerated for prune_messages
MaxContent == 3
\* largest budget enumerated for prune_messages
MaxBudget == 5
\* number of handler steps in one behaviour of the handlers
MaxEvents == 3
\* number of handler steps in one behaviour of a single user's session
MaxSessionEvents == 5

-----------------------------------------------------------------------------
(* Texts *)

NL == "\n"
\* the code-fence delimiter (three backticks), one character of a scaled text
Fence == "#"

Min(a, b) == IF a < b THEN a ELSE b

\* s[:n] for n >= 0
Prefix(s, n) == SubSeq(s, 1, Min(n, Len(s)))

\* position of the first NL of s, 0 when there is none
RECURSIVE firstNL(_, _)
firstNL(s, i) ==
    IF i > Len(s) THEN 0
    ELSE IF s[i] = NL THEN i
    ELSE firstNL(s, i + 1)

\* str.split("\n"): the lines of s; the empty text has one empty line
RECURSIVE split(_)
split(s) ==
    LET p == firstNL(s, 1) IN
    IF p = 0 THEN <<s>>
    ELSE <<SubSeq(s, 1, p - 1)>> \o split(SubSeq(s, p + 1, Len(s)))

\* "\n".join(lines)
RECURSIVE join(_)
join(lines) ==
    IF Len(lines) = 0 THEN <<>>
    ELSE IF Len(lines) = 1 THEN lines[1]
    ELSE lines[1] \o <<NL>> \o join(Tail(lines))

RECURSIVE SumLen(_)
SumLen(msgs) ==
    IF Len(msgs) = 0 THEN 0
    ELSE Len(msgs[1].content) + SumLen(Tail(msgs))

\* all sequences over S of length lo..hi
SeqsOf(S, lo, hi) == UNION {[1..n -> S] : n \in lo..hi}

Reverse(s) == [i \in 1..Len(s) |-> s[Len(s) + 1 - i]]

-----------------------------------------------------------------------------
(* function.py: prune_messages *)

\* the loop body without the cut: an entry over the remainder is taken whole
prune_step_no_cut(st, i, max_chars) ==
    LET message == st.messages[i]
        content_length == Len(message.content)
        remaining_chars == max_chars - st.total_chars
    IN  IF remaining_chars <= 0
        THEN [st EXCEPT !.done = TRUE]
        ELSE [st EXCEPT
                !.pruned_messages = Append(@, message),
                !.total_chars = @ + content_length]

\* the loop body without the `break` after the cut
prune_step_no_break(st, i, max_chars) ==
    LET message == st.messages[i]
        content_length == Len(message.content)
        remaining_chars == max_chars - st.total_chars
    IN  IF remaining_chars <= 0
        THEN [st EXCEPT !.done = TRUE]
        ELSE IF content_length > remaining_chars
        THEN [st EXCEPT
                !.pruned_messages = Append(@,
                    [role |-> message.role,
                     content |-> Prefix(message.content, remaining_chars)])]
        ELSE [st EXCEPT
                !.pruned_messages = Append(@, message),
                !.total_chars = @ + content_length]

\* the loop body cutting the stored entry itself:
\* message["content"] = message["content"][:remaining_chars]
prune_step_in_place(st, i, max_chars) ==
    LET message == st.messages[i]
        content_length == Len(message.content)
        remaining_chars == max_chars - st.total_chars
    IN  IF remaining_chars <= 0
        THEN [st EXCEPT !.done = TRUE]
        ELSE IF content_length > remaining_chars
        THEN [st EXCEPT
                !.messages[i].content = Prefix(message.content, remaining_chars),
                !.pruned_messages = Append(@,
                    [role |-> message.role,
                     content |-> Prefix(message.content, remaining_chars)]),
                !.done = TRUE]
        ELSE [st EXCEPT
                !.pruned_messages = Append(@, message),
                !.total_chars = @ + content_length]

\* the loop body dropping the entry that does not fit instead of cutting it
prune_step_drops_cut(st, i, max_chars) ==
    LET message == st.messages[i]
        content_length == Len(message.content)
        remaining_chars == max_chars - st.total_chars
    IN  IF remaining_chars <= 0
        THEN [st EXCEPT !.done = TRUE]
        ELSE IF content_length > remaining_chars
        THEN [st EXCEPT !.done = TRUE]
        ELSE [st EXCEPT
                !.pruned_messages = Append(@, message),
                !.total_chars = @ + content_length]

\* One pass of the loop body `for message in reversed(messages)` on entry i.
\* st.messages is the caller's list as the loop leaves it, st.done is `break`.
prune_step(st, i, max_chars) ==
    LET message == st.messages[i]
        content_length == Len(message.content)
        remaining_chars == max_chars - st.total_chars
    IN  IF remaining_chars <= 0
        THEN [st EXCEPT !.done = TRUE]
        ELSE IF content_length > remaining_chars
        THEN [st EXCEPT
                !.pruned_messages = Append(@,
                    [role |-> message.role,
                     content |-> Prefix(message.content, remaining_chars)]),
                !.done = TRUE]
        ELSE [st EXCEPT
                !.pruned_messages = Append(@, message),
                !.total_chars = @ + content_length]

RECURSIVE prune_loop(_, _, _)
prune_loop(st, i, max_chars) ==
    IF i = 0 \/ st.done THEN st
    ELSE prune_loop(prune_step(st, i, max_chars), i - 1, max_chars)

\* The call prune_messages(messages, max_chars): ret is the returned list,
\* messages the caller's list after the call.
prune_messages(messages, max_chars) ==
    LET st == prune_loop([pruned_messages |-> <<>>, total_chars |-> 0,
                          messages |-> messages, done |-> FALSE],
                         Len(messages), max_chars)
    IN  [ret |-> Reverse(st.pruned_messages), messages |-> st.messages]

-----------------------------------------------------------------------------
(* handler.py: the long-message splitters *)

\* handler.py:566, 1000, 1038: the limit the splitters compare against
max_length == MaxLength

\* generate_history: "\n\n".join(f"{role}:\n{content}")
RECURSIVE generate_history(_)
generate_history(messages) ==
    IF Len(messages) = 0 THEN <<>>
    ELSE LET m == messages[1]
             one == <<m.role, ":", NL>> \o m.content
         IN  IF Len(messages) = 1 THEN one
             ELSE one \o <<NL, NL>> \o generate_history(Tail(messages))

\* send_history, loop body
send_history_step(st, line) ==
    LET line_length == Len(line) + 1 IN
    IF st.current_length + line_length > max_length
    THEN [chunks |-> Append(st.chunks, join(st.current_chunk)),
          current_chunk |-> <<line>>,
          current_length |-> line_length]
    ELSE [chunks |-> st.chunks,
          current_chunk |-> Append(st.current_chunk, line),
          current_length |-> st.current_length + line_length]

RECURSIVE send_history_loop(_, _)
send_history_loop(st, lines) ==
    IF Len(lines) = 0 THEN st
    ELSE send_history_loop(send_history_step(st, lines[1]), Tail(lines))

\* the chunks send_history sends, in order
send_history(history) ==
    LET st == send_history_loop(
                  [chunks |-> <<>>, current_chunk |-> <<>>, current_length |-> 0],
                  split(history))
    IN  IF Len(st.current_chunk) > 0
        THEN Append(st.chunks, join(st.current_chunk))
        ELSE st.chunks

\* send_message_kwargs_long, loop body
kwargs_long_step(st, line) ==
    IF Len(st.chunk) + Len(line) + 1 > max_length
    THEN [chunks |-> Append(st.chunks, st.chunk), chunk |-> line]
    ELSE IF Len(st.chunk) > 0
    THEN [chunks |-> st.chunks, chunk |-> st.chunk \o line \o <<NL>>]
    ELSE [chunks |-> st.chunks, chunk |-> line]

RECURSIVE kwargs_long_loop(_, _)
kwargs_long_loop(st, lines) ==
    IF Len(lines) = 0 THEN st
    ELSE kwargs_long_loop(kwargs_long_step(st, lines[1]), Tail(lines))

\* the text send_message_kwargs_long splits
kwargs_long_content(model_message_kwargs, response_message_kwargs) ==
    model_message_kwargs \o <<NL>> \o response_message_kwargs

\* the chunks send_message_kwargs_long sends, in order
send_message_kwargs_long(model_message_kwargs, response_message_kwargs) ==
    LET st == kwargs_long_loop(
                  [chunks |-> <<>>, chunk |-> <<>>],
                  split(kwargs_long_content(model_message_kwargs,
                                            response_message_kwargs)))
    IN  IF Len(st.chunk) > 0 THEN Append(st.chunks, st.chunk) ELSE st.chunks

\* send_message_md_long, loop body: len(current_chunk) is the number of lines
md_long_step(st, line) ==
    IF Len(st.current_chunk) + Len(line) + 1 > max_length
    THEN [chunks |-> Append(st.chunks, join(st.current_chunk)),
          current_chunk |-> <<line>>]
    ELSE [chunks |-> st.chunks,
          current_chunk |-> Append(st.current_chunk, line)]

RECURSIVE md_long_loop(_, _)
md_long_loop(st, lines) ==
    IF Len(lines) = 0 THEN st
    ELSE md_long_loop(md_long_step(st, lines[1]), Tail(lines))

\* the text send_message_md_long splits
md_long_final_message(model_massage_md, response_md) ==
    <<"*">> \o model_massage_md \o <<"*", NL>> \o response_md

\* the chunks send_message_md_long sends, in order
send_message_md_long(model_massage_md, response_md) ==
    LET st == md_long_loop(
                  [chunks |-> <<>>, current_chunk |-> <<>>],
                  split(md_long_final_message(model_massage_md, response_md)))
    IN  IF Len(st.current_chunk) > 0
        THEN Append(st.chunks, join(st.current_chunk))
        ELSE st.chunks


-----------------------------------------------------------------------------
(* handler.py: identities, sessions, what a handler reports *)

OWNER_ID == "owner"
ADMIN_ID == "admin"
\* a user who is neither the owner nor the admin
GUEST_ID == "guest"
\* the bot's own account: the author (from_user) of every menu message
BOT_ID == "bot"

Users == {OWNER_ID, ADMIN_ID, GUEST_ID}

\* ChangeValueState.waiting_for_new_value, and the cleared state
waiting_for_new_value == "waiting_for_new_value"
NoState == "none"

Models == {"gpt-4o-mini", "gpt-4o", "o1-mini", "o1-preview", "dall-e-3"}
TextModels == {"gpt-4o-mini", "gpt-4o", "o1-mini", "o1-preview"}

\* the display name each model-selection handler writes
ModelInfo(m) ==
    CASE m = "gpt-4o-mini" -> "4o mini"
      [] m = "gpt-4o"      -> "4o"
      [] m = "o1-mini"     -> "o1 mini"
      [] m = "o1-preview"  -> "o1"
      [] m = "dall-e-3"    -> "DALL-E 3"

\* the chat prefix each model-selection handler writes: the name, ":\n\n"
ModelChat(m) == <<ModelInfo(m), NL, NL>>

\* the fields command_start_handler assigns
StartData ==
    [model |-> "gpt-4o-mini",
     model_message_info |-> ModelInfo("gpt-4o-mini"),
     model_message_chat |-> ModelChat("gpt-4o-mini"),
     messages |-> <<>>,
     count_messages |-> 0,
     max_out |-> MaxOut,
     voice_answer |-> FALSE,
     system_message |-> <<>>,
     pic_grade |-> "standard",
     pic_size |-> "1024x1024"]

\* texts of the messages users send
HelpText == <<"/", "h", "e", "l", "p">>
FreeTexts == {<<"a">>, <<"b", "c">>}
\* a response longer than the transport limit, a short one, and a short one
\* with a fenced block
LongResponse == [i \in 1..(MaxLength + 1) |-> IF i % 3 = 0 THEN NL ELSE "r"]
FencedResponse == <<Fence, "r", Fence>>
Responses == {<<"r">>, LongResponse, FencedResponse}

\* an incoming message: its content type, its text (for a voice message the
\* transcription, ok = FALSE when process_voice_message raises)
TextMessages == {[type |-> "text", text |-> t, ok |-> TRUE] : t \in FreeTexts}
VoiceMessages == {[type |-> "voice", text |-> <<"a">>, ok |-> b] : b \in BOOLEAN}
PhotoMessage == [type |-> "photo", text |-> <<>>, ok |-> TRUE]
HelpMessage == [type |-> "text", text |-> HelpText, ok |-> TRUE]

\* what the handler of one event did
\* was: the FSM state of the user when the event arrived; input: the message
\* or the value the event carried; save_at: how many of the sends precede
\* the save (save_user_data), when there is one
Report(handler, update, user, gated, admitted, sends, saves, calls) ==
    [handler |-> handler, update |-> update, user |-> user, gated |-> gated,
     admitted |-> admitted, sends |-> sends, saves |-> saves, calls |-> calls,
     raised |-> FALSE, was |-> NoState, input |-> <<>>, save_at |-> 0]

\* the steps handled so far are fewer than the behaviour's bound
MoreEvents ==
    nevents < (IF fn.name \in {"session", "roles", "throttle"}
               THEN MaxSessionEvents ELSE MaxEvents)

HandledAt(save_at, input, handler, update, user, gated, admitted, sends, saves, calls) ==
    /\ last' = [Report(handler, update, user, gated, admitted, sends, saves, calls)
                    EXCEPT !.was = fsm_state[user], !.input = input,
                           !.save_at = save_at]
    /\ nevents' = nevents + 1

HandledIn(input, handler, update, user, gated, admitted, sends, saves, calls) ==
    HandledAt(0, input, handler, update, user, gated, admitted, sends, saves,
              calls)

Handled(handler, update, user, gated, admitted, sends, saves, calls) ==
    HandledIn(<<>>, handler, update, user, gated, admitted, sends, saves, calls)

\* the handler ended by an exception nothing caught
RaisedIn(input, handler, update, user, sends, saves, calls) ==
    /\ last' = [Report(handler, update, user, TRUE, TRUE, sends, saves, calls)
                    EXCEPT !.raised = TRUE, !.was = fsm_state[user],
                           !.input = input]
    /\ nevents' = nevents + 1

Raised(handler, update, user, sends, saves, calls) ==
    RaisedIn(<<>>, handler, update, user, sends, saves, calls)

\* a send of the transport: its kind and what it carries
Send(kind, body) == [kind |-> kind, body |-> body]

\* the texts of the exceptions the collaborators raise
Exceptions == {"model call failed", "send failed"}

\* message.reply(f"An error occurred: {e}")
ErrorReply(e) == Send("error", <<"An error occurred: ", e>>)

-----------------------------------------------------------------------------
(* handler.py: the access gate *)

\* from_user.id of the message a handler passes to checkAccess: the sender of
\* an incoming message; for a button press the handler passes
\* callback_query.message, the menu message, whose author is the bot
GateSubject(update, user) == IF update = "callback" THEN BOT_ID ELSE user

\* checkAccess without the test of ALL_USERS_ACCESS
checkAccess_privileged_only(user_id) ==
    \/ user_id = OWNER_ID
    \/ user_id = ADMIN_ID

\* checkAccess, its result for message.from_user.id = user_id
checkAccess(user_id) ==
    \/ user_id = OWNER_ID
    \/ user_id = ADMIN_ID
    \/ ALL_USERS_ACCESS

\* checkAccess, its denial: message.answer with the id it read
Denial(user_id) == Send("denied", <<user_id>>)

\* a handler that clears the FSM state and saves before it tests the gate
Rejected_after_clear(handler, update, user) ==
    /\ Handled(handler, update, user, TRUE, FALSE,
               <<Denial(GateSubject(update, user))>>, 1, 0)
    /\ fsm_state' = [fsm_state EXCEPT ![user] = NoState]
    /\ UNCHANGED <<ALL_USERS_ACCESS, user_data, sys_massage, pending>>

\* `if not await checkAccess(...): return` when checkAccess returned False
Rejected(handler, update, user) ==
    /\ Handled(handler, update, user, TRUE, FALSE,
               <<Denial(GateSubject(update, user))>>, 0, 0)
    /\ UNCHANGED <<ALL_USERS_ACCESS, user_data, fsm_state, sys_massage, pending>>

\* the same return in a handler whose event carries an input
RejectedIn(input, handler, update, user) ==
    /\ HandledAt(0, input, handler, update, user, TRUE, FALSE,
                 <<Denial(GateSubject(update, user))>>, 0, 0)
    /\ UNCHANGED <<ALL_USERS_ACCESS, user_data, fsm_state, sys_massage, pending>>

Admits(update, user) == checkAccess(GateSubject(update, user))

\* /enable_all without the test of the sender
enable_all_access_unchecked(u) ==
    /\ MoreEvents
    /\ ALL_USERS_ACCESS' = TRUE
    /\ Handled("enable_all_access", "message", u, FALSE, TRUE,
               <<Send("access_enabled", <<>>)>>, 0, 0)
    /\ UNCHANGED <<user_data, fsm_state, sys_massage, pending, fn, out>>

\* /enable_all
enable_all_access(u) ==
    /\ MoreEvents
    /\ IF u # OWNER_ID /\ u # ADMIN_ID
       THEN /\ Handled("enable_all_access", "message", u, FALSE, FALSE,
                       <<Send("no_permission", <<>>)>>, 0, 0)
            /\ UNCHANGED ALL_USERS_ACCESS
       ELSE /\ ALL_USERS_ACCESS' = TRUE
            /\ Handled("enable_all_access", "message", u, FALSE, TRUE,
                       <<Send("access_enabled", <<>>)>>, 0, 0)
    /\ UNCHANGED <<user_data, fsm_state, sys_massage, pending, fn, out>>

\* /disable_all
disable_all_access(u) ==
    /\ MoreEvents
    /\ IF u # OWNER_ID /\ u # ADMIN_ID
       THEN /\ Handled("disable_all_access", "message", u, FALSE, FALSE,
                       <<Send("no_permission", <<>>)>>, 0, 0)
            /\ UNCHANGED ALL_USERS_ACCESS
       ELSE /\ ALL_USERS_ACCESS' = FALSE
            /\ Handled("disable_all_access", "message", u, FALSE, TRUE,
                       <<Send("access_disabled", <<>>)>>, 0, 0)
    /\ UNCHANGED <<user_data, fsm_state, sys_massage, pending, fn, out>>

-----------------------------------------------------------------------------
(* handler.py: commands *)

\* /start without state.clear()
command_start_handler_keeps_state(u) ==
    /\ MoreEvents
    /\ IF ~Admits("message", u)
       THEN Rejected("command_start_handler", "message", u)
       ELSE /\ user_data' = [user_data EXCEPT ![u] = StartData]
            /\ Handled("command_start_handler", "message", u, TRUE, TRUE,
                       <<Send("start_message", <<>>)>>, 1, 0)
            /\ UNCHANGED <<ALL_USERS_ACCESS, fsm_state, sys_massage, pending>>
    /\ UNCHANGED <<fn, out>>

\* /start
command_start_handler(u) ==
    /\ MoreEvents
    /\ IF ~Admits("message", u)
       THEN Rejected("command_start_handler", "message", u)
       ELSE /\ fsm_state' = [fsm_state EXCEPT ![u] = NoState]
            /\ user_data' = [user_data EXCEPT ![u] = StartData]
            /\ Handled("command_start_handler", "message", u, TRUE, TRUE,
                       <<Send("start_message", <<>>)>>, 1, 0)
            /\ UNCHANGED <<ALL_USERS_ACCESS, sys_massage, pending>>
    /\ UNCHANGED <<fn, out>>

\* info_menu_func: the main-menu text, from the session's fields
info_menu_func(d) ==
    <<d.count_messages, d.model_message_info, d.voice_answer,
      d.system_message # <<>>, d.pic_grade, d.pic_size>>

\* /menu assigning the fields of /start
process_key_button_resets_session(u) ==
    /\ MoreEvents
    /\ IF ~Admits("message", u)
       THEN Rejected("process_key_button", "message", u)
       ELSE /\ fsm_state' = [fsm_state EXCEPT ![u] = NoState]
            /\ user_data' = [user_data EXCEPT ![u] = StartData]
            /\ Handled("process_key_button", "message", u, TRUE, TRUE,
                       <<Send("menu", info_menu_func(StartData))>>, 1, 0)
            /\ UNCHANGED <<ALL_USERS_ACCESS, sys_massage, pending>>
    /\ UNCHANGED <<fn, out>>

\* /menu
process_key_button(u) ==
    /\ MoreEvents
    /\ IF ~Admits("message", u)
       THEN Rejected("process_key_button", "message", u)
       ELSE /\ fsm_state' = [fsm_state EXCEPT ![u] = NoState]
            /\ Handled("process_key_button", "message", u, TRUE, TRUE,
                       <<Send("menu", info_menu_func(user_data[u]))>>, 0, 0)
            /\ UNCHANGED <<ALL_USERS_ACCESS, user_data, sys_massage, pending>>
    /\ UNCHANGED <<fn, out>>

\* /help; a user awaiting role input never reaches it: process_new_value is
\* registered first and takes the message
help_handler(u) ==
    /\ MoreEvents
    /\ fsm_state[u] # waiting_for_new_value
    /\ IF ~Admits("message", u)
       THEN RejectedIn(HelpMessage, "help_handler", "message", u)
       ELSE /\ fsm_state' = [fsm_state EXCEPT ![u] = NoState]
            /\ HandledIn(HelpMessage, "help_handler", "message", u, TRUE, TRUE,
                       <<Send("help_message", <<>>)>>, 0, 0)
            /\ UNCHANGED <<ALL_USERS_ACCESS, user_data, sys_massage, pending>>
    /\ UNCHANGED <<fn, out>>


-----------------------------------------------------------------------------
(* handler.py: menu buttons (callback queries) *)

\* the buttons whose handlers clear the FSM state and redraw one screen
ScreenButtons == {"model_choice", "pic_setup", "context_work",
                  "voice_answer_work", "system_value_work", "back_menu", "info"}

\* the text each of these handlers passes to edit_text
ScreenText(data, d) ==
    CASE data = "model_choice"      -> <<d.model_message_info>>
      [] data = "pic_setup"         -> <<d.pic_grade, d.pic_size>>
      [] data = "context_work"      -> <<d.count_messages>>
      [] data = "voice_answer_work" -> <<d.voice_answer>>
      [] data = "system_value_work" -> <<d.system_message>>
      [] data = "back_menu"         -> info_menu_func(d)
      [] data = "info"              -> <<d.model_message_info, d.pic_grade,
                                         d.pic_size, d.count_messages,
                                         d.voice_answer, d.system_message>>

\* model_choice, pic_setup, context_work, voice_answer_work,
\* system_value_work, back_menu, info
process_callback_screen(u, data) ==
    /\ MoreEvents
    /\ IF ~Admits("callback", u)
       THEN Rejected(data, "callback", u)
       ELSE /\ fsm_state' = [fsm_state EXCEPT ![u] = NoState]
            /\ Handled(data, "callback", u, TRUE, TRUE,
                       <<Send("edit_text", ScreenText(data, user_data[u]))>>, 0, 0)
            /\ UNCHANGED <<ALL_USERS_ACCESS, user_data, sys_massage, pending>>
    /\ UNCHANGED <<fn, out>>

\* the model selection handlers assigning the model alone
process_callback_menu_model_only(u, m) ==
    /\ MoreEvents
    /\ IF ~Admits("callback", u)
       THEN RejectedIn(m, "model_select", "callback", u)
       ELSE IF user_data[u].model = m
       THEN /\ HandledIn(m, "model_select", "callback", u, TRUE, TRUE, <<>>, 0, 0)
            /\ UNCHANGED <<ALL_USERS_ACCESS, user_data, fsm_state, sys_massage,
                           pending>>
       ELSE /\ user_data' = [user_data EXCEPT ![u] =
                [@ EXCEPT !.model = m,
                          !.max_out = IF m = "dall-e-3" THEN @ ELSE MaxOut]]
            /\ HandledIn(m, "model_select", "callback", u, TRUE, TRUE,
                       <<Send("edit_text", <<ModelInfo(m)>>)>>, 1, 0)
            /\ UNCHANGED <<ALL_USERS_ACCESS, fsm_state, sys_massage, pending>>
    /\ UNCHANGED <<fn, out>>

\* gpt_4o_mini, gpt_4_o, gpt_o1_mini, gpt_o1_preview, dall_e_3: select model m;
\* the dall_e_3 handler leaves max_out as it is
process_callback_menu(u, m) ==
    /\ MoreEvents
    /\ IF ~Admits("callback", u)
       THEN RejectedIn(m, "model_select", "callback", u)
       ELSE IF user_data[u].model = m
       THEN /\ HandledIn(m, "model_select", "callback", u, TRUE, TRUE, <<>>, 0, 0)
            /\ UNCHANGED <<ALL_USERS_ACCESS, user_data, fsm_state, sys_massage,
                           pending>>
       ELSE /\ user_data' = [user_data EXCEPT ![u] =
                [@ EXCEPT !.model = m,
                          !.max_out = IF m = "dall-e-3" THEN @ ELSE MaxOut,
                          !.model_message_info = ModelInfo(m),
                          !.model_message_chat = ModelChat(m)]]
            /\ HandledIn(m, "model_select", "callback", u, TRUE, TRUE,
                       <<Send("edit_text", <<ModelInfo(m)>>)>>, 1, 0)
            /\ UNCHANGED <<ALL_USERS_ACCESS, fsm_state, sys_massage, pending>>
    /\ UNCHANGED <<fn, out>>

\* set_sd, set_hd
process_callback_set_grade(u, grade) ==
    /\ MoreEvents
    /\ IF ~Admits("callback", u)
       THEN RejectedIn(grade, "set_grade", "callback", u)
       ELSE IF user_data[u].pic_grade = grade
       THEN /\ HandledIn(grade, "set_grade", "callback", u, TRUE, TRUE, <<>>, 0, 0)
            /\ UNCHANGED <<ALL_USERS_ACCESS, user_data, fsm_state, sys_massage,
                           pending>>
       ELSE /\ user_data' = [user_data EXCEPT ![u].pic_grade = grade]
            /\ HandledIn(grade, "set_grade", "callback", u, TRUE, TRUE,
                       <<Send("edit_text", <<grade, user_data[u].pic_size>>)>>, 1, 0)
            /\ UNCHANGED <<ALL_USERS_ACCESS, fsm_state, sys_massage, pending>>
    /\ UNCHANGED <<fn, out>>

\* the size handlers without the return on an unchanged size
process_callback_set_size_always_saves(u, size) ==
    /\ MoreEvents
    /\ IF ~Admits("callback", u)
       THEN RejectedIn(size, "set_size", "callback", u)
       ELSE /\ user_data' = [user_data EXCEPT ![u].pic_size = size]
            /\ HandledIn(size, "set_size", "callback", u, TRUE, TRUE,
                       <<Send("edit_text", <<user_data[u].pic_grade, size>>)>>, 1, 0)
            /\ UNCHANGED <<ALL_USERS_ACCESS, fsm_state, sys_massage, pending>>
    /\ UNCHANGED <<fn, out>>

\* set_1024x1024, set_1024x1792, set_1792x1024
process_callback_set_size(u, size) ==
    /\ MoreEvents
    /\ IF ~Admits("callback", u)
       THEN RejectedIn(size, "set_size", "callback", u)
       ELSE IF user_data[u].pic_size = size
       THEN /\ HandledIn(size, "set_size", "callback", u, TRUE, TRUE, <<>>, 0, 0)
            /\ UNCHANGED <<ALL_USERS_ACCESS, user_data, fsm_state, sys_massage,
                           pending>>
       ELSE /\ user_data' = [user_data EXCEPT ![u].pic_size = size]
            /\ HandledIn(size, "set_size", "callback", u, TRUE, TRUE,
                       <<Send("edit_text", <<user_data[u].pic_grade, size>>)>>, 1, 0)
            /\ UNCHANGED <<ALL_USERS_ACCESS, fsm_state, sys_massage, pending>>
    /\ UNCHANGED <<fn, out>>

\* the texts a pressed menu message may show that the handlers test for
ShownTexts == {"Context is empty", "Context cleared", "other"}

\* context: show the history; shown is callback_query.message.text
process_callback_context(u, shown) ==
    /\ MoreEvents
    /\ IF ~Admits("callback", u)
       THEN Rejected("context", "callback", u)
       ELSE /\ LET history == generate_history(user_data[u].messages) IN
               IF shown = "Context is empty"
               THEN Handled("context", "callback", u, TRUE, TRUE, <<>>, 0, 0)
               ELSE IF history = <<>>
               THEN Handled("context", "callback", u, TRUE, TRUE,
                            <<Send("edit_text", <<"Context is empty">>)>>, 0, 0)
               ELSE Handled("context", "callback", u, TRUE, TRUE,
                            [i \in 1..Len(send_history(history)) |->
                                Send("text", send_history(history)[i])]
                            \o <<Send("menu_context", <<>>),
                                 Send("edit_text", <<"Context:">>)>>, 0, 0)
            /\ UNCHANGED <<ALL_USERS_ACCESS, user_data, fsm_state, sys_massage,
                           pending>>
    /\ UNCHANGED <<fn, out>>

\* Clear Context that resets the counter and keeps the history
process_callback_clear_keeps_history(u, shown) ==
    /\ MoreEvents
    /\ IF ~Admits("callback", u)
       THEN Rejected("clear", "callback", u)
       ELSE /\ user_data' = [user_data EXCEPT ![u].count_messages = 0]
            /\ Handled("clear", "callback", u, TRUE, TRUE,
                       IF shown = "Context cleared" THEN <<>>
                       ELSE <<Send("edit_text", <<"Context cleared">>)>>, 1, 0)
            /\ UNCHANGED <<ALL_USERS_ACCESS, fsm_state, sys_massage, pending>>
    /\ UNCHANGED <<fn, out>>

\* clear: empty the history and reset the counter
process_callback_clear(u, shown) ==
    /\ MoreEvents
    /\ IF ~Admits("callback", u)
       THEN Rejected("clear", "callback", u)
       ELSE /\ user_data' = [user_data EXCEPT ![u] =
                [@ EXCEPT !.messages = <<>>, !.count_messages = 0]]
            /\ Handled("clear", "callback", u, TRUE, TRUE,
                       IF shown = "Context cleared" THEN <<>>
                       ELSE <<Send("edit_text", <<"Context cleared">>)>>, 1, 0)
            /\ UNCHANGED <<ALL_USERS_ACCESS, fsm_state, sys_massage, pending>>
    /\ UNCHANGED <<fn, out>>

\* voice_answer_add (on = TRUE), voice_answer_del (on = FALSE)
process_callback_voice_answer(u, on) ==
    /\ MoreEvents
    /\ IF ~Admits("callback", u)
       THEN RejectedIn(on, "voice_answer", "callback", u)
       ELSE IF user_data[u].voice_answer = on
       THEN /\ HandledIn(on, "voice_answer", "callback", u, TRUE, TRUE, <<>>, 0, 0)
            /\ UNCHANGED <<ALL_USERS_ACCESS, user_data, fsm_state, sys_massage,
                           pending>>
       ELSE /\ user_data' = [user_data EXCEPT ![u].voice_answer = on]
            /\ HandledIn(on, "voice_answer", "callback", u, TRUE, TRUE,
                       <<Send("edit_text", <<on>>)>>, 1, 0)
            /\ UNCHANGED <<ALL_USERS_ACCESS, fsm_state, sys_massage, pending>>
    /\ UNCHANGED <<fn, out>>

\* change_value: ask for the role text
process_callback_change_value(u) ==
    /\ MoreEvents
    /\ IF ~Admits("callback", u)
       THEN Rejected("change_value", "callback", u)
       ELSE /\ fsm_state' = [fsm_state EXCEPT ![u] = waiting_for_new_value]
            /\ Handled("change_value", "callback", u, TRUE, TRUE,
                       <<Send("edit_text", <<"system_message_text">>)>>, 0, 0)
            /\ UNCHANGED <<ALL_USERS_ACCESS, user_data, sys_massage, pending>>
    /\ UNCHANGED <<fn, out>>

\* delete_value: remove the role
process_callback_delete_value(u) ==
    /\ MoreEvents
    /\ IF ~Admits("callback", u)
       THEN RejectedIn(<<>>, "delete_value", "callback", u)
       ELSE /\ fsm_state' = [fsm_state EXCEPT ![u] = NoState]
            /\ IF user_data[u].system_message = <<>>
               THEN /\ HandledIn(<<>>, "delete_value", "callback", u, TRUE, TRUE, <<>>, 0, 0)
                    /\ UNCHANGED user_data
               ELSE /\ user_data' = [user_data EXCEPT ![u].system_message = <<>>]
                    /\ HandledIn(<<>>, "delete_value", "callback", u, TRUE, TRUE,
                               <<Send("edit_text", <<"Undefined">>)>>, 1, 0)
            /\ UNCHANGED <<ALL_USERS_ACCESS, sys_massage, pending>>
    /\ UNCHANGED <<fn, out>>


-----------------------------------------------------------------------------
(* handler.py: free-form messages *)

HasFence(text) == \E i \in 1..Len(text) : text[i] = Fence

\* process_new_value without state.clear()
process_new_value_keeps_state(u, msg) ==
    /\ MoreEvents
    /\ fsm_state[u] = waiting_for_new_value
    /\ IF ~Admits("message", u)
       THEN RejectedIn(msg, "process_new_value", "message", u)
       ELSE LET heard == IF msg.type = "voice" \/ msg.type = "text"
                         THEN <<msg.text>>
                         ELSE sys_massage
            IN  IF (msg.type = "voice" /\ ~msg.ok) \/ heard = <<>>
                THEN \* process_voice_message raised, or sys_massage is not
                     \* defined yet (NameError)
                     /\ RaisedIn(msg, "process_new_value", "message", u, <<>>, 0, 0)
                     /\ UNCHANGED <<ALL_USERS_ACCESS, user_data, fsm_state,
                                    sys_massage, pending>>
                ELSE /\ sys_massage' = heard
                     /\ user_data' = [user_data EXCEPT
                                        ![u].system_message = heard[1]]
                     /\ HandledIn(msg, "process_new_value", "message", u, TRUE, TRUE,
                                <<Send("role", heard[1])>>, 1, 0)
                     /\ UNCHANGED <<ALL_USERS_ACCESS, fsm_state, pending>>
    /\ UNCHANGED <<fn, out>>

\* router.message.middleware(ThrottlingMiddleware(spin=1.5)): a rate limiter,
\* it lets one message of a user through per interval and holds back or drops
\* a message that arrives before the interval since the last one has elapsed.
\* Where time is not part of the behaviour (fn has no clock) two events are
\* as far apart as one likes and every message passes.
ThrottlingMiddleware(u) ==
    IF fn.name = "throttle"
    THEN /\ fn.elapsed[u]
         /\ fn' = [fn EXCEPT !.elapsed[u] = FALSE]
         /\ UNCHANGED out
    ELSE UNCHANGED <<fn, out>>

\* time passes: the interval since the last message of u has elapsed
Tick(u) ==
    /\ fn.name = "throttle"
    /\ ~fn.elapsed[u]
    /\ fn' = [fn EXCEPT !.elapsed[u] = TRUE]
    /\ UNCHANGED <<ALL_USERS_ACCESS, user_data, fsm_state, sys_massage, pending,
                   last, nevents, out>>

\* the message handler registered for the state waiting_for_new_value: it
\* takes every message of a waiting user that no earlier handler matched
process_new_value(u, msg) ==
    /\ MoreEvents
    /\ fsm_state[u] = waiting_for_new_value
    /\ IF ~Admits("message", u)
       THEN RejectedIn(msg, "process_new_value", "message", u)
       ELSE LET heard == IF msg.type = "voice" \/ msg.type = "text"
                         THEN <<msg.text>>
                         ELSE sys_massage
            IN  IF (msg.type = "voice" /\ ~msg.ok) \/ heard = <<>>
                THEN \* process_voice_message raised, or sys_massage is not
                     \* defined yet (NameError)
                     /\ RaisedIn(msg, "process_new_value", "message", u, <<>>, 0, 0)
                     /\ UNCHANGED <<ALL_USERS_ACCESS, user_data, fsm_state,
                                    sys_massage, pending>>
                ELSE /\ sys_massage' = heard
                     /\ user_data' = [user_data EXCEPT
                                        ![u].system_message = heard[1]]
                     /\ fsm_state' = [fsm_state EXCEPT ![u] = NoState]
                     /\ HandledIn(msg, "process_new_value", "message", u, TRUE, TRUE,
                                <<Send("role", heard[1])>>, 1, 0)
                     /\ UNCHANGED <<ALL_USERS_ACCESS, pending>>
    /\ UNCHANGED <<fn, out>>

\* the request led by the system entry whatever the model
ChatRequest_system_for_all(d, pruned_messages) ==
    <<[role |-> "system", content |-> d.system_message]>> \o pruned_messages

\* the message list of the chat completion request: the trimmed history, led
\* by the system entry for gpt-4o-mini and gpt-4o
ChatRequest(d, pruned_messages) ==
    IF d.model = "gpt-4o-mini" \/ d.model = "gpt-4o"
    THEN <<[role |-> "system", content |-> d.system_message]>> \o pruned_messages
    ELSE pruned_messages

\* chatgpt_text_handler inserting the system entry into the stored history
chatgpt_text_handler_stores_request(u, msg, simple) ==
    /\ MoreEvents
    /\ fsm_state[u] # waiting_for_new_value
    /\ IF ~Admits("message", u)
       THEN RejectedIn(msg, "chatgpt_text_handler", "message", u)
       ELSE IF msg.type = "voice" /\ ~msg.ok
       THEN /\ RaisedIn(msg, "chatgpt_text_handler", "message", u,
                      <<Send("wait", <<>>)>>, 0, 0)
            /\ UNCHANGED <<ALL_USERS_ACCESS, user_data, fsm_state, sys_massage,
                           pending>>
       ELSE IF simple
       THEN /\ HandledAt(0, msg, "chatgpt_text_handler", "message", u, TRUE, TRUE,
                       <<Send("wait", <<>>), Send("delete_wait", <<>>),
                         Send("simple_response", <<>>)>>, 0, 0)
            /\ UNCHANGED <<ALL_USERS_ACCESS, user_data, fsm_state, sys_massage,
                           pending>>
       ELSE IF user_data[u].model \in TextModels
       THEN LET appended == Append(user_data[u].messages,
                                   [role |-> "user", content |-> msg.text])
                pruned == prune_messages(appended, user_data[u].max_out)
            IN  /\ user_data' = [user_data EXCEPT ![u].messages =
                                    ChatRequest(user_data[u], pruned.ret)]
                /\ pending' = [pending EXCEPT ![u] = Append(@,
                        [kind |-> "chat",
                         request |-> ChatRequest(user_data[u], pruned.ret)])]
                /\ HandledAt(0, msg, "chatgpt_text_handler", "message", u, TRUE, TRUE,
                           <<Send("wait", <<>>)>>, 0, 1)
                /\ UNCHANGED <<ALL_USERS_ACCESS, fsm_state, sys_massage>>
       ELSE /\ pending' = [pending EXCEPT ![u] = Append(@,
                        [kind |-> "image", request |-> <<msg.text>>])]
            /\ HandledAt(0, msg, "chatgpt_text_handler", "message", u, TRUE, TRUE,
                       <<Send("wait", <<>>)>>, 0, 1)
            /\ UNCHANGED <<ALL_USERS_ACCESS, user_data, fsm_state, sys_massage>>
    /\ ThrottlingMiddleware(u)

\* chatgpt_text_handler up to its model call; simple is whether
\* simple_bot_responses answers the prompt itself
chatgpt_text_handler(u, msg, simple) ==
    /\ MoreEvents
    /\ fsm_state[u] # waiting_for_new_value
    /\ IF ~Admits("message", u)
       THEN RejectedIn(msg, "chatgpt_text_handler", "message", u)
       ELSE IF msg.type = "voice" /\ ~msg.ok
       THEN /\ RaisedIn(msg, "chatgpt_text_handler", "message", u,
                      <<Send("wait", <<>>)>>, 0, 0)
            /\ UNCHANGED <<ALL_USERS_ACCESS, user_data, fsm_state, sys_massage,
                           pending>>
       ELSE IF simple
       THEN /\ HandledAt(0, msg, "chatgpt_text_handler", "message", u, TRUE, TRUE,
                       <<Send("wait", <<>>), Send("delete_wait", <<>>),
                         Send("simple_response", <<>>)>>, 0, 0)
            /\ UNCHANGED <<ALL_USERS_ACCESS, user_data, fsm_state, sys_massage,
                           pending>>
       ELSE IF user_data[u].model \in TextModels
       THEN LET appended == Append(user_data[u].messages,
                                   [role |-> "user", content |-> msg.text])
                pruned == prune_messages(appended, user_data[u].max_out)
            IN  /\ user_data' = [user_data EXCEPT ![u].messages = pruned.messages]
                /\ pending' = [pending EXCEPT ![u] = Append(@,
                        [kind |-> "chat",
                         request |-> ChatRequest(user_data[u], pruned.ret)])]
                /\ HandledAt(0, msg, "chatgpt_text_handler", "message", u, TRUE, TRUE,
                           <<Send("wait", <<>>)>>, 0, 1)
                /\ UNCHANGED <<ALL_USERS_ACCESS, fsm_state, sys_massage>>
       ELSE /\ pending' = [pending EXCEPT ![u] = Append(@,
                        [kind |-> "image", request |-> <<msg.text>>])]
            /\ HandledAt(0, msg, "chatgpt_text_handler", "message", u, TRUE, TRUE,
                       <<Send("wait", <<>>)>>, 0, 1)
            /\ UNCHANGED <<ALL_USERS_ACCESS, user_data, fsm_state, sys_massage>>
    /\ ThrottlingMiddleware(u)

\* text_to_speech: the synthesis call on the text, then the audio send
text_to_speech(text_message) ==
    <<Send("speech", text_message), Send("audio", text_message)>>

\* the sends of the response dispatch (handler.py:1078-1109) and of the
\* voice reply that follows them
Dispatch(d, response_message) ==
    LET texts ==
            IF HasFence(response_message)
            THEN IF Len(response_message) > max_length
                 THEN send_message_md_long(d.model_message_chat, response_message)
                 ELSE <<<<"*">> \o d.model_message_chat \o <<"*">>
                          \o response_message>>
            ELSE IF Len(response_message) > max_length
                 THEN send_message_kwargs_long(d.model_message_chat,
                                               response_message)
                 ELSE <<d.model_message_chat \o response_message>>
    IN  [i \in 1..Len(texts) |-> Send("text", texts[i])]
        \o (IF d.voice_answer THEN text_to_speech(response_message) ELSE <<>>)

RemoveAt(s, i) == SubSeq(s, 1, i - 1) \o SubSeq(s, i + 1, Len(s))

\* an inner except that only reports the failure
DispatchFallback_error_only(d, response_message) ==
    <<ErrorReply("send failed")>>

\* the sends of the inner except (handler.py:1111-1126): the formatted
\* variants again, and the voice reply
DispatchFallback(d, response_message) ==
    LET texts ==
            IF Len(response_message) > max_length
            THEN send_message_kwargs_long(d.model_message_chat, response_message)
            ELSE <<d.model_message_chat \o response_message>>
    IN  [i \in 1..Len(texts) |-> Send("text", texts[i])]
        \o (IF d.voice_answer THEN text_to_speech(response_message) ELSE <<>>)

\* how the sends of a reply end: the first attempt is delivered ("sent"); its
\* first send raises and the sends of the inner except are delivered
\* ("fallback"); or those raise too ("failed"); or the texts of the first
\* attempt are delivered, its synthesis call raises and the sends of the inner
\* except are delivered ("speech_failed")
Deliveries == {"sent", "fallback", "failed", "speech_failed"}

\* the first attempt up to the synthesis call that raises
DispatchToSpeech(d, response_message) ==
    LET sends == Dispatch(d, response_message)
    IN  SubSeq(sends, 1, Len(sends) - 1)

\* chatgpt_text_handler from the return of its model call: call i of user u
\* returns response (ok) or raises, and the reply is delivered or not
chat_completion(u, i, ok, response, delivery) ==
    /\ MoreEvents
    /\ i \in 1..Len(pending[u])
    /\ pending' = [pending EXCEPT ![u] = RemoveAt(@, i)]
    /\ IF ~ok
       THEN /\ delivery = "sent"
            /\ HandledIn(delivery, "chat_completion", "resume", u, FALSE, TRUE,
                         <<ErrorReply("model call failed")>>, 0, 0)
            /\ UNCHANGED user_data
       ELSE IF pending[u][i].kind = "chat"
       THEN /\ delivery = "speech_failed" => user_data[u].voice_answer
            /\ user_data' = [user_data EXCEPT ![u] =
                [@ EXCEPT !.messages = Append(@,
                              [role |-> "assistant", content |-> response]),
                          !.count_messages = @ + 1]]
            /\ HandledIn(delivery, "chat_completion", "resume", u, FALSE, TRUE,
                         <<Send("delete_wait", <<>>)>>
                         \o (CASE delivery = "sent" ->
                                     Dispatch(user_data[u], response)
                               [] delivery = "fallback" ->
                                     DispatchFallback(user_data[u], response)
                               [] delivery = "failed" ->
                                     \* the outer except (handler.py:1128-1131)
                                     <<ErrorReply("send failed")>>
                               [] delivery = "speech_failed" ->
                                     DispatchToSpeech(user_data[u], response)
                                     \o DispatchFallback(user_data[u], response)),
                         1, 0)
       ELSE \* dall-e-3: send_photo is outside every try
            /\ delivery \in {"sent", "failed"}
            /\ user_data' = [user_data EXCEPT ![u].count_messages = @ + 1]
            /\ IF delivery = "sent"
               THEN HandledIn(delivery, "chat_completion", "resume", u, FALSE, TRUE,
                              <<Send("delete_wait", <<>>), Send("photo", <<>>)>>,
                              1, 0)
               ELSE RaisedIn(delivery, "chat_completion", "resume", u,
                             <<Send("delete_wait", <<>>)>>, 1, 0)
    /\ UNCHANGED <<ALL_USERS_ACCESS, fsm_state, sys_massage, fn, out>>

\* a photo message: the vision request and its answer
chatgpt_photo_vision_handler(u, ok) ==
    /\ MoreEvents
    /\ fsm_state[u] # waiting_for_new_value
    /\ IF ~Admits("message", u)
       THEN RejectedIn(PhotoMessage, "chatgpt_photo_vision_handler", "message", u)
       ELSE /\ fsm_state' = [fsm_state EXCEPT ![u] = NoState]
            /\ IF ok
               THEN /\ user_data' = [user_data EXCEPT ![u].count_messages = @ + 1]
                    /\ HandledAt(1, PhotoMessage, "chatgpt_photo_vision_handler",
                                 "message", u, TRUE, TRUE,
                               <<Send("wait", <<>>), Send("delete_wait", <<>>),
                                 Send("vision_answer", <<>>)>>, 1, 1)
               ELSE /\ HandledIn(PhotoMessage, "chatgpt_photo_vision_handler", "message", u,
                               TRUE, TRUE,
                               <<Send("wait", <<>>),
                                 ErrorReply("model call failed")>>, 0, 1)
                    /\ UNCHANGED user_data
            /\ UNCHANGED <<ALL_USERS_ACCESS, sys_massage, pending>>
    /\ UNCHANGED <<fn, out>>

-----------------------------------------------------------------------------
(* The handlers' specification *)

NoFn == [name |-> "none"]
NoOut == [calls |-> 0]

HandlerInit ==
    /\ ALL_USERS_ACCESS = FALSE
    /\ user_data = [u \in Users |-> StartData]
    /\ fsm_state = [u \in Users |-> NoState]
    /\ sys_massage = <<>>
    /\ pending = [u \in Users |-> <<>>]
    /\ last = Report("none", "none", BOT_ID, FALSE, FALSE, <<>>, 0, 0)
    /\ nevents = 0

Init == HandlerInit /\ fn = NoFn /\ out = NoOut

\* one step of the handlers for an event of user u
HandlerStep(u) ==
    \/ enable_all_access(u)
    \/ disable_all_access(u)
    \/ command_start_handler(u)
    \/ process_key_button(u)
    \/ help_handler(u)
    \/ \E data \in ScreenButtons : process_callback_screen(u, data)
    \/ \E m \in Models : process_callback_menu(u, m)
    \/ \E grade \in {"standard", "hd"} : process_callback_set_grade(u, grade)
    \/ \E size \in {"1024x1024", "1024x1792", "1792x1024"} :
           process_callback_set_size(u, size)
    \/ \E shown \in ShownTexts : process_callback_context(u, shown)
    \/ \E shown \in ShownTexts : process_callback_clear(u, shown)
    \/ \E on \in BOOLEAN : process_callback_voice_answer(u, on)
    \/ process_callback_change_value(u)
    \/ process_callback_delete_value(u)
    \/ \E msg \in TextMessages \cup VoiceMessages \cup {PhotoMessage, HelpMessage} :
           process_new_value(u, msg)
    \/ \E msg \in TextMessages \cup VoiceMessages, simple \in BOOLEAN :
           chatgpt_text_handler(u, msg, simple)
    \/ \E i \in 1..Len(pending[u]), ok \in BOOLEAN, response \in Responses,
          delivery \in Deliveries :
           chat_completion(u, i, ok, response, delivery)
    \/ \E ok \in BOOLEAN : chatgpt_photo_vision_handler(u, ok)

Next == \E u \in Users : HandlerStep(u)

Spec == Init /\ [][Next]_vars

-----------------------------------------------------------------------------
(* one user's session: the owner alone, over more steps *)

SessionInit == HandlerInit /\ fn = [name |-> "session"] /\ out = NoOut

NextSession == HandlerStep(OWNER_ID)

SpecSession == SessionInit /\ [][NextSession]_vars

-----------------------------------------------------------------------------
(* role input of two users: the owner and a guest set their system roles *)

RolesInit == HandlerInit /\ fn = [name |-> "roles"] /\ out = NoOut

NextRoles ==
    \E u \in {OWNER_ID, GUEST_ID} :
        \/ enable_all_access(u)
        \/ process_callback_change_value(u)
        \/ \E msg \in TextMessages \cup VoiceMessages \cup {PhotoMessage} :
               process_new_value(u, msg)

SpecRoles == RolesInit /\ [][NextRoles]_vars

-----------------------------------------------------------------------------
(* chat messages of one user under the rate limiter, with time *)

ThrottleInit ==
    /\ HandlerInit
    /\ fn = [name |-> "throttle", elapsed |-> [u \in Users |-> TRUE]]
    /\ out = NoOut

NextThrottle ==
    \/ Tick(OWNER_ID)
    \/ \E msg \in TextMessages \cup VoiceMessages, simple \in BOOLEAN :
           chatgpt_text_handler(OWNER_ID, msg, simple)
    \/ \E i \in 1..Len(pending[OWNER_ID]), ok \in BOOLEAN,
          response \in Responses, delivery \in Deliveries :
           chat_completion(OWNER_ID, i, ok, response, delivery)

SpecThrottle == ThrottleInit /\ [][NextThrottle]_vars


-----------------------------------------------------------------------------
(* prune_messages applied to enumerated histories and budgets *)

\* a content of n characters, each different from the others
Word(n) == [i \in 1..n |-> i]

Entries == {[role |-> r, content |-> Word(n)] :
                r \in {"user", "assistant"}, n \in 0..MaxContent}
Histories == SeqsOf(Entries, 0, MaxHistory)
Budgets == (0 - 1)..MaxBudget

PruneInit ==
    /\ HandlerInit
    /\ fn \in {[name |-> "prune_messages", messages |-> h, max_chars |-> b,
                model |-> m, system_message |-> <<"s">>] :
                    h \in Histories, b \in Budgets, m \in {"gpt-4o", "o1-mini"}}
    /\ out = NoOut

\* handler.py:939-951: trim the stored history, then build the request from
\* the trimmed list; done twice on the same stored list
PruneCall ==
    /\ fn.name = "prune_messages"
    /\ out.calls < 2
    /\ LET stored == IF out.calls = 0 THEN fn.messages ELSE out.messages
           pruned == prune_messages(stored, fn.max_chars)
       IN  out' = [calls |-> out.calls + 1,
                   ret |-> pruned.ret,
                   messages |-> pruned.messages,
                   request |-> ChatRequest(fn, pruned.ret),
                   first |-> IF out.calls = 0 THEN pruned.ret ELSE out.first]
    /\ UNCHANGED <<fn, handlerVars>>

NextPrune == PruneCall

SpecPrune == PruneInit /\ [][NextPrune]_vars

-----------------------------------------------------------------------------
(* the splitters applied to enumerated texts longer than the limit *)

Chars == {"a", NL, Fence}

ChunkInit ==
    /\ HandlerInit
    /\ fn \in {[name |-> "chunk", response_message |-> t] :
                    t \in SeqsOf(Chars, MaxLength + 1, MaxTextLen)}
    /\ out = NoOut

Chunked(splitter, text, chunks) ==
    out' = [calls |-> 1, splitter |-> splitter, text |-> text, chunks |-> chunks]

\* handler.py:1096-1099, 1113-1116: a response longer than the limit, split
\* by the formatted variant
SplitKwargsLong ==
    /\ fn.name = "chunk"
    /\ out = NoOut
    /\ Chunked("send_message_kwargs_long",
               kwargs_long_content(StartData.model_message_chat,
                                   fn.response_message),
               send_message_kwargs_long(StartData.model_message_chat,
                                        fn.response_message))
    /\ UNCHANGED <<fn, handlerVars>>

\* handler.py:1079-1083: a response with a fence, longer than the limit, split
\* by the code-preserving variant
SplitMdLong ==
    /\ fn.name = "chunk"
    /\ out = NoOut
    /\ HasFence(fn.response_message)
    /\ Chunked("send_message_md_long",
               md_long_final_message(StartData.model_message_chat,
                                     fn.response_message),
               send_message_md_long(StartData.model_message_chat,
                                    fn.response_message))
    /\ UNCHANGED <<fn, handlerVars>>

\* handler.py:542-556: the history of a prompt and its answer, split by
\* send_history
SplitHistory(k) ==
    /\ fn.name = "chunk"
    /\ out = NoOut
    /\ LET t == fn.response_message
           history == generate_history(
               <<[role |-> "user", content |-> SubSeq(t, 1, k)],
                 [role |-> "assistant", content |-> SubSeq(t, k + 1, Len(t))]>>)
       IN  Chunked("send_history", history, send_history(history))
    /\ UNCHANGED <<fn, handlerVars>>

NextChunk ==
    \/ SplitKwargsLong
    \/ SplitMdLong
    \/ \E k \in 1..MaxLength : SplitHistory(k)

SpecChunk == ChunkInit /\ [][NextChunk]_vars

-----------------------------------------------------------------------------
(* the response dispatch applied to enumerated responses, short and long *)

DispatchInit ==
    /\ HandlerInit
    /\ fn \in {[name |-> "dispatch", response_message |-> t, voice_answer |-> v] :
                    t \in SeqsOf(Chars, 1, MaxLength + 1), v \in BOOLEAN}
    /\ out = NoOut

\* handler.py:1078-1109: the sends for the response of a session with the
\* settings of /start and the chosen voice switch
DispatchResponse ==
    /\ fn.name = "dispatch"
    /\ out = NoOut
    /\ out' = [calls |-> 1,
               sends |-> Dispatch([StartData EXCEPT !.voice_answer = fn.voice_answer],
                                  fn.response_message)]
    /\ UNCHANGED <<fn, handlerVars>>

NextDispatch == DispatchResponse

SpecDispatch == DispatchInit /\ [][NextDispatch]_vars


-----------------------------------------------------------------------------
(* Access gate: C1 - C5 *)

Privileged == {OWNER_ID, ADMIN_ID}

\* C1: an event of a user who is neither the owner nor the admin passes the
\* gate of a gated handler (command, chat, voice or photo message, button
\* press) exactly when ALL_USERS_ACCESS is true at the check, whatever
\* /enable_all and /disable_all came before.
C1_OthersAdmittedIffAllUsersAccess ==
    (last.gated /\ last.user \notin Privileged)
        => (last.admitted <=> ALL_USERS_ACCESS)

\* a guest's button press is admitted after /enable_all
C1_Witness ==
    /\ last.gated /\ last.user = GUEST_ID /\ last.update = "callback"
    /\ last.admitted

\* C2: at every gated entry point, button presses included, an event of the
\* owner or of the admin is admitted whatever ALL_USERS_ACCESS is.
C2_PrivilegedAlwaysAdmitted ==
    (last.gated /\ last.user \in Privileged) => last.admitted

\* C3: a rejection emits exactly one denial, and the identifier in it is that
\* of the user who triggered the event (for a button press, the user who
\* pressed it).
C3_DenialNamesTheCaller ==
    (last.gated /\ ~last.admitted) => last.sends = <<Denial(last.user)>>

\* C4: when the gate rejects an event the denial is its only effect: session
\* fields, history, counter, role-input marker and ALL_USERS_ACCESS keep
\* their values, and there is no model call, no save and no other send.
C4_RejectionOnlyDenies ==
    [][(last'.gated /\ ~last'.admitted)
        => /\ user_data' = user_data
           /\ fsm_state' = fsm_state
           /\ ALL_USERS_ACCESS' = ALL_USERS_ACCESS
           /\ sys_massage' = sys_massage
           /\ pending' = pending
           /\ Len(last'.sends) = 1
           /\ last'.sends[1].kind = "denied"
           /\ last'.saves = 0
           /\ last'.calls = 0]_vars

\* a guest's chat message is rejected while another user's exchange is open
C4_Witness ==
    /\ last.gated /\ ~last.admitted
    /\ last.handler = "chatgpt_text_handler"
    /\ \E u \in Users : Len(pending[u]) > 0

-----------------------------------------------------------------------------
(* Conversation buffer: C6 - C8 (under SpecPrune) *)

\* a is b with its content cut to a leading part (or left whole), same role
CutOf(a, b) ==
    /\ a.role = b.role
    /\ Len(a.content) <= Len(b.content)
    /\ a.content = SubSeq(b.content, 1, Len(a.content))

\* C6 as stated: for every history and every budget, the content lengths of
\* the returned entries sum to at most the budget, and the result is empty
\* when the budget is zero or negative.
C6_SumWithinEveryBudget ==
    out.calls >= 1
        => /\ SumLen(out.ret) <= fn.max_chars
           /\ fn.max_chars <= 0 => out.ret = <<>>

\* C6 amended: for every history and every budget that is not negative, the
\* content lengths of the returned entries sum to at most the budget; for a
\* zero or negative budget the result is empty.
C6_SumWithinBudget ==
    out.calls >= 1
        => /\ fn.max_chars >= 0 => SumLen(out.ret) <= fn.max_chars
           /\ fn.max_chars <= 0 => out.ret = <<>>

\* a history over the budget was trimmed, with an entry cut
C6_Witness ==
    /\ out.calls >= 1
    /\ fn.max_chars > 0
    /\ SumLen(fn.messages) > fn.max_chars
    /\ SumLen(out.ret) = fn.max_chars
    /\ Len(out.ret) >= 2

\* C7: the result is, in chronological order, a contiguous suffix of the
\* history: every returned entry but the first is the history's entry, the
\* first may differ only by its content being cut (same role), no older entry
\* is in while a newer one is out; at most one entry is cut.
C7_SuffixWithFirstCut ==
    out.calls >= 1
        => LET k == Len(out.ret)
               off == Len(fn.messages) - k
           IN  /\ k <= Len(fn.messages)
               /\ \A j \in 2..k : out.ret[j] = fn.messages[off + j]
               /\ k >= 1 => CutOf(out.ret[1], fn.messages[off + 1])
               /\ Cardinality({j \in 1..k : out.ret[j] # fn.messages[off + j]}) <= 1

\* two entries returned out of a longer history, the first of them cut
C7_Witness ==
    /\ out.calls >= 1
    /\ Len(out.ret) = 2
    /\ Len(fn.messages) > 2
    /\ out.ret[1] # fn.messages[Len(fn.messages) - 1]
    /\ out.ret[2] = fn.messages[Len(fn.messages)]

\* C8: trimming leaves the stored history as it was (length, order, every
\* content), also when an entry is cut and when the pipeline then puts the
\* system entry in front of the trimmed list; a second call with the same
\* arguments returns the same list.
C8_TrimmingIsAView ==
    /\ out.calls >= 1 => out.messages = fn.messages
    /\ out.calls = 2 => out.ret = out.first

\* called twice, an entry was cut and the system entry leads the request
C8_Witness ==
    /\ out.calls = 2
    /\ Len(out.ret) >= 1
    /\ out.ret[1] # fn.messages[Len(fn.messages) + 1 - Len(out.ret)]
    /\ Len(out.request) = Len(out.ret) + 1
    /\ out.request[1].role = "system"

-----------------------------------------------------------------------------
(* Output chunking: C9, C10 (under SpecChunk) *)

\* every line of the text fits the limit by itself
LinesFit(text) == \A i \in 1..Len(split(text)) : Len(split(text)[i]) <= max_length

\* C9: every segment the long-message splitters produce (formatted variant,
\* code-preserving variant, history splitter) is at most the limit long;
\* stated here for the texts none of whose lines exceeds the limit.
C9_SegmentsWithinLimit ==
    (out.calls = 1 /\ LinesFit(out.text))
        => \A i \in 1..Len(out.chunks) : Len(out.chunks[i]) <= max_length

\* C10: joining the segments with a newline between consecutive segments
\* gives back the (label-prefixed) text exactly.
C10_ChunkingIsLossless ==
    out.calls = 1 => join(out.chunks) = out.text


\* the number of fence delimiters in a text
FenceCount(text) == Cardinality({i \in 1..Len(text) : text[i] = Fence})

\* C11: the code-preserving variant never puts a segment boundary between the
\* opening and the closing delimiter of a fenced block: for a response whose
\* blocks are all closed, every segment holds whole blocks, that is an even
\* number of delimiters.
C11_FencedBlocksUnsplit ==
    (/\ out.calls = 1
     /\ out.splitter = "send_message_md_long"
     /\ FenceCount(out.text) % 2 = 0)
        => \A i \in 1..Len(out.chunks) : FenceCount(out.chunks[i]) % 2 = 0

-----------------------------------------------------------------------------
(* Response dispatch: C12 (under SpecDispatch) *)

\* C12: for a response of at most the limit, each text the dispatch sends
\* (the label followed by the response) is at most the limit long.
C12_SingleSendWithinLimit ==
    (out.calls = 1 /\ Len(fn.response_message) <= max_length)
        => \A i \in 1..Len(out.sends) :
               out.sends[i].kind = "text" => Len(out.sends[i].body) <= max_length

-----------------------------------------------------------------------------
(* Menu state and role input: C13 - C17 (under SpecSession) *)

RootCommands == {"command_start_handler", "process_key_button"}

\* the event just handled is a free-form message: a text that is no command,
\* or a voice message
FreeForm(r) ==
    r.update = "message" /\ r.input \in TextMessages \cup VoiceMessages

\* C13: an admitted /start or /menu leaves the user without the role-input
\* marker, whatever the state before; the user's free-form message that
\* follows is handled by the conversation handler and changes no system role.
C13_StartAndMenuLeaveRoot ==
    [][/\ (last'.handler \in RootCommands /\ last'.admitted)
            => fsm_state'[last'.user] = NoState
       /\ (/\ last.handler \in RootCommands /\ last.admitted
           /\ nevents' = nevents + 1
           /\ last'.user = last.user /\ FreeForm(last'))
            => /\ last'.handler = "chatgpt_text_handler"
               /\ user_data'[last.user].system_message
                      = user_data[last.user].system_message
               /\ sys_massage' = sys_massage]_vars

\* /start or /menu was admitted for a user who was awaiting role input
C13_Witness ==
    /\ last.handler \in RootCommands /\ last.admitted
    /\ last.was = waiting_for_new_value
    /\ fsm_state[last.user] = NoState

\* C14: /help sent by a user awaiting role input clears the marker, shows the
\* help text and stores nothing as the system role.
C14_HelpWhileAwaitingResets ==
    [][(/\ nevents' = nevents + 1
        /\ last'.update = "message" /\ last'.admitted
        /\ last'.input = HelpMessage
        /\ fsm_state[last'.user] = waiting_for_new_value)
            => /\ fsm_state'[last'.user] = NoState
               /\ last'.sends = <<Send("help_message", <<>>)>>
               /\ user_data'[last'.user].system_message
                      = user_data[last'.user].system_message]_vars


\* C15: every admitted menu action that displays a screen other than the
\* role-input prompt leaves the user without the role-input marker.
C15_MenuActionsClearMarker ==
    (/\ last.update = "callback" /\ last.admitted
     /\ last.handler # "change_value")
        => fsm_state[last.user] = NoState


SettingActions ==
    {"model_select", "set_grade", "set_size", "voice_answer", "delete_value"}

\* the field a setting action is about
CurrentSetting(handler, d) ==
    CASE handler = "model_select" -> d.model
      [] handler = "set_grade"    -> d.pic_grade
      [] handler = "set_size"     -> d.pic_size
      [] handler = "voice_answer" -> d.voice_answer
      [] handler = "delete_value" -> d.system_message

\* C17: an admitted setting action whose field already has the requested
\* value writes nothing to the store, changes no session field and does not
\* redraw the screen.
C17_UnchangedSettingWritesNothing ==
    [][(/\ nevents' = nevents + 1
        /\ last'.handler \in SettingActions /\ last'.admitted
        /\ CurrentSetting(last'.handler, user_data[last'.user]) = last'.input)
            => /\ last'.saves = 0
               /\ last'.sends = <<>>
               /\ user_data' = user_data]_vars

\* a setting button was pressed for the value the session already had
C17_Witness ==
    /\ last.handler \in SettingActions /\ last.admitted
    /\ CurrentSetting(last.handler, user_data[last.user]) = last.input
    /\ last.saves = 0 /\ last.sends = <<>>


-----------------------------------------------------------------------------
(* Session fields: C18 - C20 *)

\* C18: no entry of any user's stored history has the role system: stored
\* entries are user and assistant entries only.
C18_HistoryHoldsNoSystemEntry ==
    \A u \in Users : \A i \in 1..Len(user_data[u].messages) :
        user_data[u].messages[i].role \in {"user", "assistant"}

\* a request led by the system entry was answered, after a role was set, and
\* the exchange is in the history
C18_Witness ==
    /\ last.handler = "chat_completion" /\ last.saves = 1
    /\ user_data[last.user].system_message # <<>>
    /\ user_data[last.user].model \in {"gpt-4o-mini", "gpt-4o"}
    /\ Len(user_data[last.user].messages) >= 2


\* the display name the claim gives for each model ("DALL-E 3" stands for the
\* name written with a middle dot)
DisplayNames ==
    [m \in Models |->
        CASE m = "gpt-4o-mini" -> "4o mini"
          [] m = "gpt-4o"      -> "4o"
          [] m = "o1-mini"     -> "o1 mini"
          [] m = "o1-preview"  -> "o1"
          [] m = "dall-e-3"    -> "DALL-E 3"]

\* C19: in every state, each session's model_message_info is the display name
\* of its model and its model_message_chat is that name followed by the
\* prefix ending; no state shows one of the three changed without the others.
C19_LabelsBelongToModel ==
    \A u \in Users :
        /\ user_data[u].model \in Models
        /\ user_data[u].model_message_info = DisplayNames[user_data[u].model]
        /\ user_data[u].model_message_chat
               = <<DisplayNames[user_data[u].model], NL, NL>>

\* a model other than the one of /start was selected
C19_Witness ==
    /\ last.handler = "model_select" /\ last.saves = 1
    /\ user_data[last.user].model # StartData.model
    /\ \E v \in Users : user_data[v].model # user_data[last.user].model


\* the kinds of send that deliver the reply of an exchange
ReplyKinds == {"text", "photo", "vision_answer"}

\* the step of an exchange delivered its reply
Delivered(r) ==
    /\ r.handler \in {"chat_completion", "chatgpt_photo_vision_handler"}
    /\ \E i \in 1..Len(r.sends) : r.sends[i].kind \in ReplyKinds

\* C20: count_messages grows by one in each step that delivers a reply (text,
\* image or vision answer) and is left as it is by every other step; the two
\* steps that reset the counter (Clear Context, /start) are set aside.
C20_CountsDeliveredReplies ==
    [][(/\ nevents' = nevents + 1
        /\ last'.handler \notin {"clear", "command_start_handler"})
            => user_data'[last'.user].count_messages
                 = user_data[last'.user].count_messages
                     + (IF Delivered(last') THEN 1 ELSE 0)]_vars


-----------------------------------------------------------------------------
(* History and counter resets: C21 (under SpecSession) *)

\* a step keeps every user's counter from falling and every non-empty history
\* from becoming empty
KeepsHistoryAndCount ==
    \A u \in Users :
        /\ user_data'[u].count_messages >= user_data[u].count_messages
        /\ user_data[u].messages # <<>> => user_data'[u].messages # <<>>

\* C21 as claimed: every step other than Clear Context keeps the counter from
\* falling and a non-empty history from becoming empty.
C21_OnlyClearResets ==
    [][(nevents' = nevents + 1 /\ last'.handler # "clear")
            => KeepsHistoryAndCount]_vars

\* C21: every step other than Clear Context and /start keeps the counter from
\* falling and a non-empty history from becoming empty.
C21_OnlyClearAndStartReset ==
    [][(/\ nevents' = nevents + 1
        /\ last'.handler \notin {"clear", "command_start_handler"})
            => KeepsHistoryAndCount]_vars

\* a menu command was handled for a user with an answered exchange
C21_Witness ==
    /\ last.handler = "process_key_button" /\ last.admitted
    /\ user_data[last.user].count_messages >= 1
    /\ user_data[last.user].messages # <<>>


-----------------------------------------------------------------------------
(* Conversation buffer: C28 (under SpecPrune) *)

\* C28: when the content lengths of the history sum to more than a positive
\* budget, those of the result sum to the budget exactly: the oldest entry
\* taken is cut to the remainder, not dropped.
C28_OverBudgetFillsBudget ==
    (/\ out.calls >= 1
     /\ fn.max_chars > 0
     /\ SumLen(fn.messages) > fn.max_chars)
        => SumLen(out.ret) = fn.max_chars

\* the two newest entries whole and a proper part of the third newest
C28_Witness ==
    /\ out.calls >= 1
    /\ fn.max_chars > 0
    /\ Len(fn.messages) = 3 /\ Len(out.ret) = 3
    /\ out.ret[2] = fn.messages[2] /\ out.ret[3] = fn.messages[3]
    /\ Len(out.ret[1].content) >= 1
    /\ Len(out.ret[1].content) < Len(fn.messages[1].content)
    /\ SumLen(out.ret) = fn.max_chars


-----------------------------------------------------------------------------
(* The request of a chat exchange: C29 (under SpecSession) *)

\* the step is a chat message of a user with a text model and a system role,
\* and it made its chat-completion request
RequestWithRole ==
    /\ nevents' = nevents + 1
    /\ last'.handler = "chatgpt_text_handler" /\ last'.calls = 1
    /\ user_data[last'.user].model \in TextModels
    /\ user_data[last'.user].system_message # <<>>

\* the request the step made, and the history as prune_messages trims it
MadeRequest == pending'[last'.user][Len(pending'[last'.user])].request

Trimmed ==
    prune_messages(user_data'[last'.user].messages,
                   user_data[last'.user].max_out).ret

SystemEntry ==
    [role |-> "system", content |-> user_data[last'.user].system_message]

\* C29 as claimed: with a system role set, the request of each of the four
\* text models is the system entry followed by the trimmed history.
C29_SystemEntryLeadsEveryRequest ==
    [][RequestWithRole => MadeRequest = <<SystemEntry>> \o Trimmed]_vars

\* C29: with a system role set, the request of gpt-4o-mini and gpt-4o is one
\* system entry holding the role, followed by the trimmed history; the
\* request of o1-mini and o1-preview is the trimmed history alone.
C29_SystemEntryLeads4oRequests ==
    [][RequestWithRole
         => IF user_data[last'.user].model \in {"gpt-4o-mini", "gpt-4o"}
            THEN MadeRequest = <<SystemEntry>> \o Trimmed
            ELSE MadeRequest = Trimmed]_vars

\* a request of a session with a system role is in flight
C29_Witness ==
    /\ last.handler = "chatgpt_text_handler" /\ last.calls = 1
    /\ user_data[last.user].system_message # <<>>
    /\ user_data[last.user].model \in TextModels
    /\ pending[last.user] # <<>>
    /\ pending[last.user][Len(pending[last.user])].request[1].role = "system"


-----------------------------------------------------------------------------
(* The reply of a chat exchange: C23 - C27 (under SpecSession) *)

\* the positions of the sends of one kind in a report
SendsOf(r, kind) == {i \in 1..Len(r.sends) : r.sends[i].kind = kind}

\* the response of the exchange just answered: the newest history entry
AnsweredResponse(u) ==
    user_data[u].messages[Len(user_data[u].messages)].content

\* C23: after a chat exchange whose text response was sent, with voice_answer
\* on the synthesis is called exactly once, on the whole response, and the one
\* audio send follows every text segment; with voice_answer off there is no
\* synthesis call and no audio send.
C23_OneSynthesisAfterTheText ==
    (/\ last.handler = "chat_completion" /\ ~last.raised
     /\ SendsOf(last, "text") # {})
        => IF user_data[last.user].voice_answer
           THEN /\ Cardinality(SendsOf(last, "speech")) = 1
                /\ \A i \in SendsOf(last, "speech") :
                       last.sends[i].body = AnsweredResponse(last.user)
                /\ Cardinality(SendsOf(last, "audio")) = 1
                /\ \A a \in SendsOf(last, "audio") :
                       \A t \in SendsOf(last, "text") \cup SendsOf(last, "speech") :
                           t < a
           ELSE SendsOf(last, "speech") \cup SendsOf(last, "audio") = {}


\* the bodies of the text sends of a report, in order
TextsOf(r) ==
    LET RECURSIVE pick(_)
        pick(i) == IF i > Len(r.sends) THEN <<>>
                   ELSE (IF r.sends[i].kind = "text" THEN <<r.sends[i].body>>
                         ELSE <<>>) \o pick(i + 1)
    IN  pick(1)

ExchangeHandlers ==
    {"chatgpt_text_handler", "chat_completion", "chatgpt_photo_vision_handler"}

\* C25: a failure while handling an admitted chat, voice or photo message
\* ends with exactly one error reply: the handler never ends by the exception
\* itself, without a reply.
C25_FailuresEndWithOneErrorReply ==
    (/\ last.handler \in ExchangeHandlers /\ last.admitted
     /\ (last.raised \/ SendsOf(last, "error") # {}))
        => /\ ~last.raised
           /\ Cardinality(SendsOf(last, "error")) = 1

\* C26: an error reply is a generic message: it holds no text of the
\* exception that was raised.
C26_ErrorReplyIsGeneric ==
    \A i \in SendsOf(last, "error") :
        \A j \in 1..Len(last.sends[i].body) :
            last.sends[i].body[j] \notin Exceptions

\* C27: in a chat exchange the save that records the exchange does not come
\* before the sends of the response: every text send of the step precedes it.
C27_SaveFollowsTheSends ==
    (last.handler = "chat_completion" /\ last.saves = 1)
        => \A t \in SendsOf(last, "text") : t <= last.save_at


-----------------------------------------------------------------------------
(* C30: the role stored by role input *)

\* an admitted role input that stored a role
StoredRole(r) ==
    r.handler = "process_new_value" /\ r.admitted /\ ~r.raised /\ r.saves = 1

\* C30: the system role stored for a user by role input is the text (or the
\* transcription) of the message of that user the step consumed, whatever the
\* type of the message and whatever other users did before.
C30_StoredRoleIsTheConsumedText ==
    StoredRole(last) => user_data[last.user].system_message = last.input.text


-----------------------------------------------------------------------------
(* C22: one user's events one after the other *)

\* C22: the events of one user are serialized: a chat message of a user is not
\* taken up while an earlier one of that user is between the load of the
\* session and its save, so no user ever has two model calls in flight.
C22_OneCallInFlightPerUser ==
    \A u \in Users : Len(pending[u]) <= 1


-----------------------------------------------------------------------------
(* C31: the counter and the assistant entries *)

\* the number of assistant entries in the history of u
AssistantEntries(u) ==
    Cardinality({i \in 1..Len(user_data[u].messages) :
                    user_data[u].messages[i].role = "assistant"})

\* C31: in every state, whatever the order of a user's handlers,
\* count_messages is at least the number of assistant entries of the user's
\* history, and both are zero right after Clear Context or /start.
C31_CountCoversAssistantEntries ==
    /\ \A u \in Users : user_data[u].count_messages >= AssistantEntries(u)
    /\ (last.handler \in {"clear", "command_start_handler"} /\ last.admitted)
           => /\ user_data[last.user].count_messages = 0
              /\ AssistantEntries(last.user) = 0

\* a reply was recorded while another exchange of the user was in flight
C31_Witness ==
    /\ last.handler = "chat_completion"
    /\ AssistantEntries(last.user) >= 1
    /\ pending[last.user] # <<>>


-----------------------------------------------------------------------------
(* C32: a failed model call and the history *)

\* the step reported by r is the return of a model call that raised
FailedCall(r) ==
    /\ r.handler = "chat_completion"
    /\ r.sends = <<ErrorReply("model call failed")>>

\* every user entry of the history of u is followed by an assistant entry
Answered(u) ==
    LET messages == user_data[u].messages
    IN  \A i \in 1..Len(messages) :
            messages[i].role = "user"
                => i < Len(messages) /\ messages[i + 1].role = "assistant"

\* C32: when the model call of a chat exchange fails the prompt does not stay
\* in the history: with no other exchange of the user in flight, every user
\* entry of the history is followed by its assistant entry.
C32_FailedCallLeavesNoPrompt ==
    (FailedCall(last) /\ pending[last.user] = <<>>) => Answered(last.user)


-----------------------------------------------------------------------------
(* C33: one delivery of a response *)

\* the text segments of one delivery of the response to a session d: those of
\* the first attempt or those of the fallback
OneDelivery(d, response) ==
    {TextsOf([sends |-> Dispatch(d, response)]),
     TextsOf([sends |-> DispatchFallback(d, response)])}

\* C33: a model response is delivered at most once: the text segments sent
\* for it are those of one delivery, also when the first attempt fails
\* part-way (a later segment is rejected, or the synthesis fails after the
\* text was sent); the fallback sends no segment that was sent already.
C33_ResponseDeliveredOnce ==
    (last.handler = "chat_completion" /\ SendsOf(last, "text") # {})
        => TextsOf(last) \in OneDelivery(user_data[last.user],
                                         AnsweredResponse(last.user))

=============================================================================
